---- MODULE Spec2Model ----
(***************************************************************************)
(* RedisClientManager (backend/src/utils/redisClientManager.ts): a         *)
(* singleton that fronts a remote cache (Upstash, REST) and a local cache  *)
(* (ioredis) with a circuit breaker.  Each get/set/del/ping is an async    *)
(* function: it runs synchronously up to an await of a backend call, and   *)
(* resumes when that call settles; calls of different request contexts     *)
(* interleave at the awaits.  Date.now() is the variable now.              *)
(***************************************************************************)
EXTENDS Integers, Sequences, FiniteSets, TLC

VARIABLES
    instance,       \* RedisClientManager.instance: 0 undefined, else the run of
                    \* the constructor that made it (1: the first, ...)
    circuitOpen,    \* RedisClientManager.circuitOpen
    cooldownUntil,  \* RedisClientManager.cooldownUntil (epoch ms)
    now,            \* Date.now()
    remote,         \* contents of the Upstash backend: key -> entry
    local,          \* contents of the local Redis backend: key -> text entry
    calls,          \* the get/set/del/ping invocations in progress
    obs             \* what the caller of the last step got back: the answer of
                    \* getActiveClient/getCircuitState, or the result of a
                    \* get/set/del/ping that settled (NoObs after any other step)

vars == <<instance, circuitOpen, cooldownUntil, now, remote, local, calls, obs>>

----------------------------------------------------------------------------
(* Bounds of the model *)

NumCalls == 2       \* request contexts that can be inside the manager at once
MaxTicks == 3       \* clock steps a behaviour may take
MaxLen == 2         \* characters of a text stored under a key

(* Program constant *)
COOLDOWN_MS == 5 * 60 * 1000

(* One clock step is half a cooldown, so that a behaviour can be strictly *)
(* inside a cooldown, exactly at its end, and past it.                    *)
TickMs == COOLDOWN_MS \div 2

Calls == 1 .. NumCalls
Keys == {"k1", "k2"}

----------------------------------------------------------------------------
(* JavaScript values.  A value is its type tag and its characters: the    *)
(* content of a string, or the canonical JSON text of any other value.    *)

JStr(s) == [t |-> "string", s |-> s]
JNum(s) == [t |-> "number", s |-> s]
JNull == [t |-> "null", s |-> <<"n", "u", "l", "l">>]
JTrue == [t |-> "boolean", s |-> <<"t", "r", "u", "e">>]
JArr(s) == [t |-> "array", s |-> s]
Undefined == [t |-> "undefined", s |-> <<>>]

Digits == {"1", "2"}

IsDigits(s) == Len(s) >= 1 /\ \A i \in 1 .. Len(s) : s[i] \in Digits

Inner(s) == SubSeq(s, 2, Len(s) - 1)

IsQuoted(s) ==
    /\ Len(s) >= 2
    /\ s[1] = "\""
    /\ s[Len(s)] = "\""
    /\ \A i \in 2 .. Len(s) - 1 : s[i] # "\""

IsArrayText(s) ==
    /\ Len(s) >= 2
    /\ s[1] = "["
    /\ s[Len(s)] = "]"
    /\ (Len(s) = 2 \/ IsDigits(Inner(s)))

(* JSON.stringify of a value that is not a string (null, boolean, number, *)
(* array of numbers): its canonical text.                                 *)
JSONstringify(v) == v.s

(* JSON.parse: ok is FALSE where JSON.parse throws a SyntaxError. *)
JSONparse(text) ==
    IF text = JNull.s THEN [ok |-> TRUE, v |-> JNull]
    ELSE IF text = JTrue.s THEN [ok |-> TRUE, v |-> JTrue]
    ELSE IF IsDigits(text) THEN [ok |-> TRUE, v |-> JNum(text)]
    ELSE IF IsQuoted(text) THEN [ok |-> TRUE, v |-> JStr(Inner(text))]
    ELSE IF IsArrayText(text) THEN [ok |-> TRUE, v |-> JArr(text)]
    ELSE [ok |-> FALSE, v |-> Undefined]

----------------------------------------------------------------------------
(* Thrown values.  A message is the sequence of the fragments it is the   *)
(* concatenation of, so that String.includes of the fixed patterns of     *)
(* isFailoverError is the occurrence of a fragment.  isError is           *)
(* `instanceof Error`; cause is err.cause with its own message and code.  *)

NoCause == [kind |-> "undefined", message |-> <<>>, codeType |-> "undefined", code |-> ""]
ErrorCause(message) ==
    [kind |-> "Error", message |-> message, codeType |-> "undefined", code |-> ""]
ErrnoCause(message, code) ==
    [kind |-> "Error", message |-> message, codeType |-> "string", code |-> code]
Thrown(isError, message, cause) ==
    [isError |-> isError, message |-> message, cause |-> cause]
NoErr == Thrown(FALSE, <<>>, NoCause)

(* String.prototype.toLowerCase on a fragment *)
toLowerCase(f) ==
    CASE f = "Unauthorized" -> "unauthorized"
      [] f = "ETIMEDOUT" -> "etimedout"
      [] f = "ENOTFOUND" -> "enotfound"
      [] f = "ECONNREFUSED" -> "econnrefused"
      [] f = "ECONNRESET" -> "econnreset"
      [] f = "Timeout" -> "timeout"
      [] f = "Network Error" -> "network error"
      [] f = "Failed to fetch" -> "failed to fetch"
      [] f = "TypeError: " -> "typeerror: "
      [] f = "ERR " -> "err "
      [] f = "Command timed out" -> "command timed out"
      [] f = "Connection is closed." -> "connection is closed."
      [] f = "EAI_AGAIN" -> "eai_again"
      [] f = "WRONGTYPE Operation against a key" -> "wrongtype operation against a key"
      [] OTHER -> f

lower(message) == [i \in 1 .. Len(message) |-> toLowerCase(message[i])]

includes(msg, pattern) == \E i \in 1 .. Len(msg) : msg[i] = pattern

FailoverPatterns ==
    {"unauthorized", "401", "403", "etimedout", "enotfound", "econnrefused",
     "econnreset", "socket hang up", "timeout", "network error",
     "failed to fetch", "fetch failed"}

matches(msg) == \E p \in FailoverPatterns : includes(msg, p)

(* Variant with a slip: the patterns of a timeout are lost *)
isFailoverError_NoTimeout(err) ==
    LET patterns == FailoverPatterns \ {"timeout", "etimedout"}
        matches2(msg) == \E p \in patterns : includes(msg, p)
    IN  IF ~err.isError THEN FALSE
        ELSE IF matches2(lower(err.message)) THEN TRUE
        ELSE IF err.cause.kind = "Error" /\ matches2(lower(err.cause.message)) THEN TRUE
        ELSE IF /\ err.cause.kind # "undefined"
                /\ err.cause.codeType = "string"
                /\ toLowerCase(err.cause.code) \in
                       {"enotfound", "econnrefused", "econnreset"}
             THEN TRUE
        ELSE FALSE

(* Variant with a slip: err.cause is not inspected *)
isFailoverError_NoCause(err) ==
    IF ~err.isError THEN FALSE
    ELSE IF matches(lower(err.message)) THEN TRUE
    ELSE FALSE

isFailoverError(err) ==
    IF ~err.isError THEN FALSE
    ELSE IF matches(lower(err.message)) THEN TRUE
    ELSE IF err.cause.kind = "Error" /\ matches(lower(err.cause.message)) THEN TRUE
    ELSE IF /\ err.cause.kind # "undefined"
            /\ err.cause.codeType = "string"
            /\ toLowerCase(err.cause.code) \in
                   {"enotfound", "econnrefused", "econnreset", "etimedout"}
         THEN TRUE
    ELSE FALSE

(* Errors the remote client can reject with *)
ErrFetchFailed == Thrown(TRUE, <<"TypeError: ", "fetch failed">>, NoCause)
ErrDns ==
    Thrown(TRUE, <<"request to upstash failed">>,
           ErrnoCause(<<"getaddrinfo ", "ENOTFOUND", " upstash.io">>, "ENOTFOUND"))
ErrWrongType ==
    Thrown(TRUE, <<"ERR ", "value is not an integer or out of range">>, NoCause)
RemoteErrors == {ErrFetchFailed, ErrDns, ErrWrongType}

(* What `catch (err)` around the remote command can receive.              *)
(* The marks by which an error tells an authorization failure, an         *)
(* unreachable network or a failed transport, as they are spelt in the    *)
(* messages and errno codes of Node and of fetch                          *)
AuthMarks == {"Unauthorized", "401", "403"}
ErrnoCodes == {"ECONNREFUSED", "ENOTFOUND", "ECONNRESET", "ETIMEDOUT"}
NetworkMarks == ErrnoCodes \cup {"Timeout", "timeout", "socket hang up"}
TransportMarks == {"Network Error", "Failed to fetch", "fetch failed"}
FailoverMarks == AuthMarks \cup NetworkMarks \cup TransportMarks

(* fetch failed on a DNS lookup whose errno code is not one of the four *)
ErrDnsAgain ==
    Thrown(TRUE, <<"fetch failed">>,
           ErrnoCause(<<"getaddrinfo ", "EAI_AGAIN", " upstash.io">>, "EAI_AGAIN"))

(* Errors that carry a mark: in their own message (a Node system error   *)
(* spells its errno code in its message), in the message of their cause, *)
(* or as the errno code of a cause whose message is empty                *)
FailoverThrown ==
    {Thrown(TRUE, <<"request failed: ", m>>, NoCause) : m \in FailoverMarks}
    \cup {Thrown(TRUE, <<"request failed">>, ErrorCause(<<"connect ", m>>)) :
              m \in FailoverMarks}
    \cup {Thrown(TRUE, <<"request failed">>, ErrnoCause(<<>>, code)) :
              code \in ErrnoCodes}
    \cup {ErrFetchFailed, ErrDns, ErrDnsAgain}

(* An error of the remote about the command, whose message repeats the *)
(* command and with it the key                                         *)
ErrWrongTypeKey401 ==
    Thrown(TRUE, <<"WRONGTYPE Operation against a key", ", command was: [\"get\",\"order:",
                   "401", "\"]">>, NoCause)
(* Thrown values that are not Errors: a string and a plain object *)
ThrownString == Thrown(FALSE, <<"fetch failed">>, NoCause)
ThrownObject == Thrown(FALSE, <<>>, ErrnoCause(<<>>, "ECONNRESET"))

(* Thrown values that tell none of the three failures *)
OtherThrown == {ErrWrongType, ErrWrongTypeKey401, ThrownString, ThrownObject}

(* Timeouts of the remote call: an aborted request, a connect timeout of *)
(* the socket, and one that only the cause of a wrapping error tells     *)
RemoteTimeouts ==
    {Thrown(TRUE, <<"The operation was aborted due to ", "timeout">>, NoCause),
     Thrown(TRUE, <<"connect ", "ETIMEDOUT", " upstash.io">>, NoCause),
     Thrown(TRUE, <<"request failed">>, ErrnoCause(<<>>, "ETIMEDOUT"))}

(* Timeouts of the local call: commandTimeout and connectTimeout of ioredis *)
LocalTimeouts ==
    {Thrown(TRUE, <<"Command timed out">>, NoCause),
     Thrown(TRUE, <<"connect ", "ETIMEDOUT">>, NoCause)}

(* Errors the local client can reject with *)
ErrLocalClosed == Thrown(TRUE, <<"Connection is closed.">>, NoCause)
LocalErrors == {ErrLocalClosed}

----------------------------------------------------------------------------
(* Requests *)

NoOptions == [has |-> FALSE, ex |-> 0]
Ex(n) == [has |-> TRUE, ex |-> n]

(* `options?.ex` as a condition: undefined and 0 are falsy *)
exGiven(options) == options.has /\ options.ex # 0

Request(op, keys, value, options) ==
    [op |-> op, keys |-> keys, value |-> value, options |-> options]
NoRequest == Request("none", <<>>, Undefined, NoOptions)

(* A command as sent to the remote client: values go structured *)
NoRemoteCmd == [op |-> "none", keys |-> <<>>, value |-> Undefined, ex |-> 0]
(* A command as sent to the local client: values go as text *)
NoLocalCmd == [op |-> "none", keys |-> <<>>, text |-> <<>>, ex |-> 0]

(* this.upstash.get / set / del / ping with the arguments the code passes; *)
(* ex = 0 is a set without expiry                                         *)
upstashCmd(req) ==
    [op |-> req.op, keys |-> req.keys, value |-> req.value,
     ex |-> IF req.op = "set" /\ exGiven(req.options) THEN req.options.ex ELSE 0]

(* set: the text handed to ioredis *)
serialised(value) ==
    IF value.t = "string" THEN value.s ELSE JSONstringify(value)

(* Variant of localCmd with a slip: the fallback set loses its EX *)
localCmd_NoEx(req) ==
    [op |-> req.op, keys |-> req.keys,
     text |-> IF req.op = "set" THEN serialised(req.value) ELSE <<>>,
     ex |-> 0]

(* this.local.get / set / del / ping with the arguments the code passes *)
localCmd(req) ==
    [op |-> req.op, keys |-> req.keys,
     text |-> IF req.op = "set" THEN serialised(req.value) ELSE <<>>,
     ex |-> IF req.op = "set" /\ exGiven(req.options) THEN req.options.ex ELSE 0]

(* get: what is made of the reply of this.local.get *)
getParsed(raw) ==
    IF raw.isNull THEN JNull
    ELSE IF JSONparse(raw.text).ok THEN JSONparse(raw.text).v
    ELSE JStr(raw.text)

----------------------------------------------------------------------------
(* The backends.  An entry expires at exp (epoch ms); exp = 0 is no       *)
(* expiry.  The local entry also remembers, as history, the value the set *)
(* that wrote it was called with.                                         *)

RemoteAbsent == [has |-> FALSE, val |-> Undefined, exp |-> 0]
LocalAbsent == [has |-> FALSE, text |-> <<>>, exp |-> 0, orig |-> Undefined]

Live(entry, t) == entry.has /\ (entry.exp = 0 \/ t < entry.exp)

Expiry(ex, t) == IF ex = 0 THEN 0 ELSE t + ex * 1000

Range(seq) == {seq[i] : i \in 1 .. Len(seq)}

(* Variant with a slip: DEL answers the number of keys listed *)
Count_Listed(store, keys, t) == Len(keys)

Count(store, keys, t) == Cardinality({k \in Range(keys) : Live(store[k], t)})

Pong == JStr(<<"PONG">>)

NoResult == [kind |-> "none", val |-> Undefined, n |-> 0, err |-> NoErr]
Value(v) == [kind |-> "ok", val |-> v, n |-> 0, err |-> NoErr]
Number(n) == [kind |-> "ok", val |-> Undefined, n |-> n, err |-> NoErr]
Raised(e) == [kind |-> "err", val |-> Undefined, n |-> 0, err |-> e]

(* The remote backend executing a command at time t *)
remoteStore(cmd, store, t) ==
    CASE cmd.op = "set" ->
            [store EXCEPT ![cmd.keys[1]] =
                [has |-> TRUE, val |-> cmd.value, exp |-> Expiry(cmd.ex, t)]]
      [] cmd.op = "del" ->
            [k \in Keys |-> IF k \in Range(cmd.keys) THEN RemoteAbsent ELSE store[k]]
      [] OTHER -> store

remoteReply(cmd, store, t) ==
    CASE cmd.op = "get" ->
            Value(IF Live(store[cmd.keys[1]], t) THEN store[cmd.keys[1]].val ELSE JNull)
      [] cmd.op = "set" -> Value(Undefined)
      [] cmd.op = "del" -> Number(Count(store, cmd.keys, t))
      [] OTHER -> Value(Pong)

(* The local backend executing a command at time t; orig is the value of *)
(* the set call the command comes from                                   *)
localStore(cmd, orig, store, t) ==
    CASE cmd.op = "set" ->
            [store EXCEPT ![cmd.keys[1]] =
                [has |-> TRUE, text |-> cmd.text, exp |-> Expiry(cmd.ex, t),
                 orig |-> orig]]
      [] cmd.op = "del" ->
            [k \in Keys |-> IF k \in Range(cmd.keys) THEN LocalAbsent ELSE store[k]]
      [] OTHER -> store

localRaw(key, store, t) ==
    IF Live(store[key], t)
    THEN [isNull |-> FALSE, text |-> store[key].text]
    ELSE [isNull |-> TRUE, text |-> <<>>]

(* Variant with a slip: the `catch` around JSON.parse is lost, the *)
(* SyntaxError reaches the caller                                 *)
localReply_NoCatch(cmd, store, t) ==
    CASE cmd.op = "get" ->
            IF localRaw(cmd.keys[1], store, t).isNull
                  \/ JSONparse(localRaw(cmd.keys[1], store, t).text).ok
            THEN Value(getParsed(localRaw(cmd.keys[1], store, t)))
            ELSE Raised(Thrown(TRUE, <<"Unexpected token">>, NoCause))
      [] cmd.op = "set" -> Value(Undefined)
      [] cmd.op = "del" -> Number(Count(store, cmd.keys, t))
      [] OTHER -> Value(Pong)

(* What the call returns to its caller once the local command resolved *)
localReply(cmd, store, t) ==
    CASE cmd.op = "get" -> Value(getParsed(localRaw(cmd.keys[1], store, t)))
      [] cmd.op = "set" -> Value(Undefined)
      [] cmd.op = "del" -> Number(Count(store, cmd.keys, t))
      [] OTHER -> Value(Pong)

----------------------------------------------------------------------------
(* Circuit breaker helpers, as functions of the fields they read *)

(* Variants of shouldUseLocal with a slip, which the properties below  *)
(* must tell from it: the cooldown ends only after cooldownUntil       *)
(* (> for >=)                                                          *)
shouldUseLocal_Late(open, until, t) ==
    IF ~open THEN [ret |-> FALSE, circuitOpen |-> open]
    ELSE IF t > until THEN [ret |-> FALSE, circuitOpen |-> FALSE]
    ELSE [ret |-> TRUE, circuitOpen |-> open]

(* the final `return true` is lost *)
shouldUseLocal_NoLocal(open, until, t) ==
    IF ~open THEN [ret |-> FALSE, circuitOpen |-> open]
    ELSE IF t >= until THEN [ret |-> FALSE, circuitOpen |-> FALSE]
    ELSE [ret |-> FALSE, circuitOpen |-> open]

(* the cooldown is not compared with the clock *)
shouldUseLocal_NoCooldown(open, until, t) ==
    IF ~open THEN [ret |-> FALSE, circuitOpen |-> open]
    ELSE [ret |-> FALSE, circuitOpen |-> FALSE]

(* get shouldUseLocal: the value returned and circuitOpen afterwards *)
shouldUseLocal(open, until, t) ==
    IF ~open THEN [ret |-> FALSE, circuitOpen |-> open]
    ELSE IF t >= until THEN [ret |-> FALSE, circuitOpen |-> FALSE]
    ELSE [ret |-> TRUE, circuitOpen |-> open]

(* Variants of tripCircuit with a slip: the cooldown is not added *)
tripCircuit_NoCooldown(open, until, t) ==
    IF open THEN [circuitOpen |-> open, cooldownUntil |-> until]
    ELSE [circuitOpen |-> TRUE, cooldownUntil |-> t]

(* the `already open` guard is lost *)
tripCircuit_Restamp(open, until, t) ==
    [circuitOpen |-> TRUE, cooldownUntil |-> t + COOLDOWN_MS]

(* a trip of an open circuit closes it *)
tripCircuit_Toggle(open, until, t) ==
    IF open THEN [circuitOpen |-> FALSE, cooldownUntil |-> until]
    ELSE [circuitOpen |-> TRUE, cooldownUntil |-> t + COOLDOWN_MS]

(* only the first trip stamps the cooldown *)
tripCircuit_KeepsStamp(open, until, t) ==
    IF open THEN [circuitOpen |-> open, cooldownUntil |-> until]
    ELSE [circuitOpen |-> TRUE,
          cooldownUntil |-> IF until = 0 THEN t + COOLDOWN_MS ELSE until]

(* a trip of an open circuit whose cooldown is over stamps it anew *)
tripCircuit_Renews(open, until, t) ==
    IF open /\ t < until THEN [circuitOpen |-> open, cooldownUntil |-> until]
    ELSE [circuitOpen |-> TRUE, cooldownUntil |-> t + COOLDOWN_MS]

(* a trip after the first one backs off: the cooldown is doubled *)
tripCircuit_Backoff(open, until, t) ==
    IF open THEN [circuitOpen |-> open, cooldownUntil |-> until]
    ELSE [circuitOpen |-> TRUE,
          cooldownUntil |-> IF until = 0 THEN t + COOLDOWN_MS
                            ELSE t + 2 * COOLDOWN_MS]

(* tripCircuit: circuitOpen and cooldownUntil afterwards *)
tripCircuit(open, until, t) ==
    IF open THEN [circuitOpen |-> open, cooldownUntil |-> until]
    ELSE [circuitOpen |-> TRUE, cooldownUntil |-> t + COOLDOWN_MS]

----------------------------------------------------------------------------
(* An invocation of get/set/del/ping.  pc is where the async function is: *)
(* "idle" (not called), "remote" (awaiting this.upstash), "local"         *)
(* (awaiting this.local); when it settles the context is idle again and   *)
(* obs holds the result.                                                  *)
(* sentRemote/sentLocal are the commands it has issued, nRemote/nLocal    *)
(* how many; wasCooling is whether it started inside a cooldown, closedIt *)
(* whether its own check closed the circuit (kept while it awaits the     *)
(* remote); wasOpen whether the circuit was already open when its catch   *)
(* block ran; sawTrip the cooldownUntil stamped by the latest trip that   *)
(* another call made while this one awaits the remote (0: none, and 0     *)
(* again once its own catch block ran).                                   *)

IdleCall ==
    [pc |-> "idle", req |-> NoRequest,
     sentRemote |-> NoRemoteCmd, sentLocal |-> NoLocalCmd,
     nRemote |-> 0, nLocal |-> 0,
     wasCooling |-> FALSE, closedIt |-> FALSE, wasOpen |-> FALSE, sawTrip |-> 0]

NoObs ==
    [kind |-> "none", isOpen |-> FALSE, cooldownUntil |-> 0, remainingMs |-> 0,
     activeClient |-> "none", call |-> IdleCall, result |-> NoResult,
     instance |-> 0, status |-> 0]

(* The invocation `call` settles with result *)
Returned(call, result) == [NoObs EXCEPT !.kind = "returned", !.call = call, !.result = result]

(* The module as it is being loaded: no instance yet *)
InitLoad ==
    /\ instance = 0
    /\ circuitOpen = FALSE
    /\ cooldownUntil = 0
    /\ now = TickMs
    /\ remote = [k \in Keys |-> RemoteAbsent]
    /\ local = [k \in Keys |-> LocalAbsent]
    /\ calls = [c \in Calls |-> IdleCall]
    /\ obs = NoObs

(* The module once loaded: `export const redisManager` has made the *)
(* instance                                                         *)
Init ==
    /\ instance = 1
    /\ circuitOpen = FALSE
    /\ cooldownUntil = 0
    /\ now = TickMs
    /\ remote = [k \in Keys |-> RemoteAbsent]
    /\ local = [k \in Keys |-> LocalAbsent]
    /\ calls = [c \in Calls |-> IdleCall]
    /\ obs = NoObs

(* The calls after the catch block of call c tripped or left the circuit *)
(* (open: circuitOpen before, until: cooldownUntil after) and moved c to *)
(* `moved`: the calls that await the remote have seen a trip             *)
AfterCatch(c, moved, open, until) ==
    [d \in Calls |->
        IF d = c THEN moved
        ELSE IF ~open /\ calls[d].pc = "remote"
             THEN [calls[d] EXCEPT !.sawTrip = until]
             ELSE calls[d]]

(* Variant with a slip: the `if (!RedisClientManager.instance)` is lost, *)
(* every call constructs (up to three, to stay finite)                  *)
getInstance_Fresh ==
    /\ instance < 3
    /\ instance' = instance + 1
    /\ circuitOpen' = FALSE
    /\ cooldownUntil' = 0
    /\ obs' = [NoObs EXCEPT !.kind = "getInstance", !.instance = instance']
    /\ UNCHANGED <<now, remote, local, calls>>

(* static getInstance(): the constructor runs when there is no instance, *)
(* and gives the new object its initial fields                           *)
getInstance ==
    /\ IF instance = 0
       THEN /\ instance' = 1
            /\ circuitOpen' = FALSE
            /\ cooldownUntil' = 0
       ELSE UNCHANGED <<instance, circuitOpen, cooldownUntil>>
    /\ obs' = [NoObs EXCEPT !.kind = "getInstance", !.instance = instance']
    /\ UNCHANGED <<now, remote, local, calls>>

(* Contexts are interchangeable: a new invocation takes the first free one *)
FirstFree(c) == calls[c].pc = "idle" /\ \A d \in Calls : d < c => calls[d].pc # "idle"

(* Variant of Enter with a slip: an operation that finds the circuit open *)
(* and cooling is refused with an error of the component's own            *)
Enter_Refuses(c, req) ==
    LET s == shouldUseLocal(circuitOpen, cooldownUntil, now)
    IN  /\ FirstFree(c)
        /\ circuitOpen' = s.circuitOpen
        /\ calls' = [calls EXCEPT ![c] =
              IF ~s.ret
              THEN [IdleCall EXCEPT !.pc = "remote", !.req = req,
                                    !.sentRemote = upstashCmd(req), !.nRemote = 1,
                                    !.closedIt = (circuitOpen /\ ~s.circuitOpen)]
              ELSE IdleCall]
        /\ obs' = IF ~s.ret THEN NoObs
                  ELSE Returned([IdleCall EXCEPT !.req = req, !.wasCooling = TRUE],
                                Raised(Thrown(TRUE, <<"circuit open">>, NoCause)))
        /\ UNCHANGED <<instance, cooldownUntil, now, remote, local>>

(* The function up to its first await: `if (!this.shouldUseLocal)` then   *)
(* the remote command, otherwise the local command                        *)
Enter(c, req) ==
    LET s == shouldUseLocal(circuitOpen, cooldownUntil, now)
        cooling == circuitOpen /\ now < cooldownUntil
    IN  /\ FirstFree(c)
        /\ circuitOpen' = s.circuitOpen
        /\ calls' = [calls EXCEPT ![c] =
              IF ~s.ret
              THEN [IdleCall EXCEPT !.pc = "remote", !.req = req,
                                    !.sentRemote = upstashCmd(req), !.nRemote = 1,
                                    !.wasCooling = cooling,
                                    !.closedIt = (circuitOpen /\ ~s.circuitOpen)]
              ELSE [IdleCall EXCEPT !.pc = "local", !.req = req,
                                    !.sentLocal = localCmd(req), !.nLocal = 1,
                                    !.wasCooling = cooling]]
        /\ obs' = NoObs
        /\ UNCHANGED <<instance, cooldownUntil, now, remote, local>>

get(c, key) == Enter(c, Request("get", <<key>>, Undefined, NoOptions))

set(c, key, value, options) == Enter(c, Request("set", <<key>>, value, options))

del(c, keys) == Enter(c, Request("del", keys, Undefined, NoOptions))

ping(c) == Enter(c, Request("ping", <<>>, Undefined, NoOptions))

(* What the component writes to the console.  shouldUseLocal writes one   *)
(* line when it closes the circuit; tripCircuit one line with the reason  *)
(* when it opens it, none when it returns early; the catch block of an    *)
(* operation writes nothing of its own, and the local command is awaited  *)
(* outside any try block.                                                 *)
LogEntry(level, reason) == [level |-> level, reason |-> reason]
shouldUseLocal_log(open, until, t) ==
    IF open /\ t >= until
    THEN <<LogEntry("log", <<"Cooldown expired ", "circuit CLOSED. Retrying Upstash.">>)>>
    ELSE <<>>
tripCircuit_log(open, reason) ==
    IF open THEN <<>>
    ELSE <<LogEntry("warn", <<"Circuit OPEN ", "Reason: ">> \o reason)>>
catch_log(open, e) ==
    IF isFailoverError(e) THEN tripCircuit_log(open, e.message) ELSE <<>>
localAwait_log(e) == <<>>

(* The time limit a backend call runs under.  The Upstash client is built *)
(* with url and token only: no limit (0); the ioredis client with          *)
(* commandTimeout.  Neither depends on the command.                        *)
NoTimeout == 0
commandTimeout == 2000
remoteTimeoutMs(cmd) == NoTimeout
localTimeoutMs(cmd) == commandTimeout

(* A caller that wants the operation done within ms milliseconds.  get    *)
(* and ping declare no such parameter and a further argument is ignored;  *)
(* set reads `ex` of its options and no other field.                      *)
Deadlines == {100, 2000, 5000}
getWithin(c, key, ms) == get(c, key)
setWithin(c, key, value, options, ms) == set(c, key, value, options)
pingWithin(c, ms) == ping(c)

(* Variant with a slip: a command the remote served is mirrored to the *)
(* local backend                                                       *)
RemoteResolves_Mirror(c) ==
    /\ calls[c].pc = "remote"
    /\ remote' = remoteStore(calls[c].sentRemote, remote, now)
    /\ local' = localStore(localCmd(calls[c].req), calls[c].req.value, local, now)
    /\ calls' = [calls EXCEPT ![c] = IdleCall]
    /\ obs' = Returned(calls[c], remoteReply(calls[c].sentRemote, remote, now))
    /\ UNCHANGED <<instance, circuitOpen, cooldownUntil, now>>

(* The awaited remote command resolves: the call returns its reply *)
RemoteResolves(c) ==
    /\ calls[c].pc = "remote"
    /\ remote' = remoteStore(calls[c].sentRemote, remote, now)
    /\ calls' = [calls EXCEPT ![c] = IdleCall]
    /\ obs' = Returned(calls[c], remoteReply(calls[c].sentRemote, remote, now))
    /\ UNCHANGED <<instance, circuitOpen, cooldownUntil, now, local>>

(* Variants of the catch block with a slip: every error trips the circuit *)
(* before it is rethrown                                                  *)
RemoteRejects_TripsOnAny(c, err) ==
    /\ calls[c].pc = "remote"
    /\ LET s == tripCircuit(circuitOpen, cooldownUntil, now)
       IN  /\ circuitOpen' = s.circuitOpen
           /\ cooldownUntil' = s.cooldownUntil
           /\ calls' = AfterCatch(c,
                 IF isFailoverError(err)
                 THEN [calls[c] EXCEPT !.pc = "local",
                                       !.sentLocal = localCmd(calls[c].req),
                                       !.nLocal = calls[c].nLocal + 1,
                                       !.closedIt = FALSE,
                                       !.wasOpen = circuitOpen,
                                       !.sawTrip = 0]
                 ELSE IdleCall,
                 circuitOpen, s.cooldownUntil)
    /\ obs' = IF isFailoverError(err) THEN NoObs ELSE Returned(calls[c], Raised(err))
    /\ UNCHANGED <<instance, now, remote, local>>

(* a failover error sends the command to the remote again before falling *)
(* back                                                                  *)
RemoteRejects_Retry(c, err) ==
    /\ calls[c].pc = "remote"
    /\ IF isFailoverError(err)
       THEN LET s == tripCircuit(circuitOpen, cooldownUntil, now)
            IN  /\ circuitOpen' = s.circuitOpen
                /\ cooldownUntil' = s.cooldownUntil
                /\ calls' = AfterCatch(c,
                      IF calls[c].nRemote < 2
                      THEN [calls[c] EXCEPT !.nRemote = calls[c].nRemote + 1]
                      ELSE [calls[c] EXCEPT !.pc = "local",
                                            !.sentLocal = localCmd(calls[c].req),
                                            !.nLocal = calls[c].nLocal + 1,
                                            !.closedIt = FALSE,
                                            !.wasOpen = circuitOpen,
                                            !.sawTrip = 0],
                      circuitOpen, s.cooldownUntil)
                /\ obs' = NoObs
       ELSE /\ calls' = [calls EXCEPT ![c] = IdleCall]
            /\ obs' = Returned(calls[c], Raised(err))
            /\ UNCHANGED <<circuitOpen, cooldownUntil>>
    /\ UNCHANGED <<instance, now, remote, local>>

(* The awaited remote command rejects with err: the catch block *)
RemoteRejects(c, err) ==
    /\ calls[c].pc = "remote"
    /\ IF isFailoverError(err)
       THEN LET s == tripCircuit(circuitOpen, cooldownUntil, now)
            IN  /\ circuitOpen' = s.circuitOpen
                /\ cooldownUntil' = s.cooldownUntil
                /\ calls' = AfterCatch(c,
                      [calls[c] EXCEPT !.pc = "local",
                                       !.sentLocal = localCmd(calls[c].req),
                                       !.nLocal = calls[c].nLocal + 1,
                                       !.closedIt = FALSE,
                                       !.wasOpen = circuitOpen,
                                       !.sawTrip = 0],
                      circuitOpen, s.cooldownUntil)
                /\ obs' = NoObs
       ELSE /\ calls' = [calls EXCEPT ![c] = IdleCall]
            /\ obs' = Returned(calls[c], Raised(err))
            /\ UNCHANGED <<circuitOpen, cooldownUntil>>
    /\ UNCHANGED <<instance, now, remote, local>>

(* The awaited local command resolves *)
LocalResolves(c) ==
    /\ calls[c].pc = "local"
    /\ local' = localStore(calls[c].sentLocal, calls[c].req.value, local, now)
    /\ calls' = [calls EXCEPT ![c] = IdleCall]
    /\ obs' = Returned(calls[c], localReply(calls[c].sentLocal, local, now))
    /\ UNCHANGED <<instance, circuitOpen, cooldownUntil, now, remote>>

(* Variant with a slip: a local failure closes the circuit again *)
LocalRejects_Closes(c, err) ==
    /\ calls[c].pc = "local"
    /\ calls' = [calls EXCEPT ![c] = IdleCall]
    /\ circuitOpen' = FALSE
    /\ obs' = Returned(calls[c], Raised(err))
    /\ UNCHANGED <<instance, cooldownUntil, now, remote, local>>

(* The awaited local command rejects with err: nothing catches it *)
LocalRejects(c, err) ==
    /\ calls[c].pc = "local"
    /\ calls' = [calls EXCEPT ![c] = IdleCall]
    /\ obs' = Returned(calls[c], Raised(err))
    /\ UNCHANGED <<instance, circuitOpen, cooldownUntil, now, remote, local>>

(* Variant with a slip: the answer is read from circuitOpen without the *)
(* cooldown check                                                      *)
getActiveClient_Snapshot ==
    /\ obs' = [NoObs EXCEPT !.kind = "getActiveClient",
                            !.activeClient = IF circuitOpen THEN "local" ELSE "upstash"]
    /\ UNCHANGED <<instance, circuitOpen, cooldownUntil, now, remote, local, calls>>

getActiveClient ==
    LET s == shouldUseLocal(circuitOpen, cooldownUntil, now)
    IN  /\ circuitOpen' = s.circuitOpen
        /\ obs' = [NoObs EXCEPT !.kind = "getActiveClient",
                                !.activeClient = IF s.ret THEN "local" ELSE "upstash"]
        /\ UNCHANGED <<instance, cooldownUntil, now, remote, local, calls>>

Max(a, b) == IF a >= b THEN a ELSE b

(* Variant with a slip: the snapshot is taken through shouldUseLocal, *)
(* which closes an expired circuit                                   *)
getCircuitState_Lazy ==
    LET s == shouldUseLocal(circuitOpen, cooldownUntil, now)
        remaining == IF s.circuitOpen THEN Max(0, cooldownUntil - now) ELSE 0
    IN  /\ circuitOpen' = s.circuitOpen
        /\ obs' = [NoObs EXCEPT !.kind = "getCircuitState",
                                !.isOpen = s.circuitOpen,
                                !.cooldownUntil = cooldownUntil,
                                !.remainingMs = remaining,
                                !.activeClient = IF s.ret THEN "local" ELSE "upstash"]
        /\ UNCHANGED <<instance, cooldownUntil, now, remote, local, calls>>

(* Variant with a slip: the two names of activeClient are exchanged *)
getCircuitState_Swapped ==
    LET remaining == IF circuitOpen THEN Max(0, cooldownUntil - now) ELSE 0
    IN  /\ obs' = [NoObs EXCEPT !.kind = "getCircuitState",
                                !.isOpen = circuitOpen,
                                !.cooldownUntil = cooldownUntil,
                                !.remainingMs = remaining,
                                !.activeClient = IF circuitOpen THEN "upstash" ELSE "local"]
        /\ UNCHANGED <<instance, circuitOpen, cooldownUntil, now, remote, local, calls>>

(* Variant with a slip: Math.max(0, ...) is lost *)
getCircuitState_NoMax ==
    LET remaining == IF circuitOpen THEN cooldownUntil - now ELSE 0
    IN  /\ obs' = [NoObs EXCEPT !.kind = "getCircuitState",
                                !.isOpen = circuitOpen,
                                !.cooldownUntil = cooldownUntil,
                                !.remainingMs = remaining,
                                !.activeClient = IF circuitOpen THEN "local" ELSE "upstash"]
        /\ UNCHANGED <<instance, circuitOpen, cooldownUntil, now, remote, local, calls>>

getCircuitState ==
    LET remaining == IF circuitOpen THEN Max(0, cooldownUntil - now) ELSE 0
    IN  /\ obs' = [NoObs EXCEPT !.kind = "getCircuitState",
                                !.isOpen = circuitOpen,
                                !.cooldownUntil = cooldownUntil,
                                !.remainingMs = remaining,
                                !.activeClient = IF circuitOpen THEN "local" ELSE "upstash"]
        /\ UNCHANGED <<instance, circuitOpen, cooldownUntil, now, remote, local, calls>>

(* Variant with a slip: the route answers 503 while the circuit is open *)
healthRedis_Unavailable ==
    LET remaining == IF circuitOpen THEN Max(0, cooldownUntil - now) ELSE 0
    IN  /\ obs' = [NoObs EXCEPT !.kind = "GET /health/redis",
                                !.status = IF circuitOpen THEN 503 ELSE 200,
                                !.isOpen = circuitOpen,
                                !.cooldownUntil = cooldownUntil,
                                !.remainingMs = remaining,
                                !.activeClient = IF circuitOpen THEN "local" ELSE "upstash"]
        /\ UNCHANGED <<instance, circuitOpen, cooldownUntil, now, remote, local, calls>>

(* router.get("/health/redis"): the handler calls getCircuitState and *)
(* answers 200 with the object it got as the JSON body                *)
healthRedis ==
    LET remaining == IF circuitOpen THEN Max(0, cooldownUntil - now) ELSE 0
    IN  /\ obs' = [NoObs EXCEPT !.kind = "GET /health/redis",
                                !.status = 200,
                                !.isOpen = circuitOpen,
                                !.cooldownUntil = cooldownUntil,
                                !.remainingMs = remaining,
                                !.activeClient = IF circuitOpen THEN "local" ELSE "upstash"]
        /\ UNCHANGED <<instance, circuitOpen, cooldownUntil, now, remote, local, calls>>

(* Time passes; the backends drop the entries that expired *)
Tick ==
    /\ now < TickMs * (MaxTicks + 1)
    /\ now' = now + TickMs
    /\ remote' = [k \in Keys |-> IF Live(remote[k], now') THEN remote[k] ELSE RemoteAbsent]
    /\ local' = [k \in Keys |-> IF Live(local[k], now') THEN local[k] ELSE LocalAbsent]
    /\ obs' = NoObs
    /\ UNCHANGED <<instance, circuitOpen, cooldownUntil, calls>>

----------------------------------------------------------------------------
(* The backend command a context of C awaits settles *)
Settle(C) ==
    \/ \E c \in C : RemoteResolves(c)
    \/ \E c \in C, e \in RemoteErrors : RemoteRejects(c, e)
    \/ \E c \in C : LocalResolves(c)
    \/ \E c \in C, e \in LocalErrors : LocalRejects(c, e)

(* Concurrent request contexts that get and set one key, and a caller of *)
(* getActiveClient: the circuit under interleaving                       *)
Next ==
    \/ \E c \in Calls : get(c, "k1")
    \/ \E c \in Calls : set(c, "k1", JNum(<<"1">>), NoOptions)
    \/ Settle(Calls)
    \/ getActiveClient
    \/ Tick

Spec == Init /\ [][Next]_vars

(* One request context that uses the four operations on one key, with the *)
(* values and options that the two backends treat differently            *)
Values == {JNum(<<"1">>), JNull, JStr(<<"a">>), JStr(<<"1">>)}
OptionValues == {NoOptions, Ex(0), Ex(TickMs \div 1000)}

NextData ==
    \/ \E v \in Values, o \in OptionValues : set(1, "k1", v, o)
    \/ get(1, "k1")
    \/ del(1, <<"k1">>)
    \/ ping(1)
    \/ Settle({1})
    \/ Tick

SpecData == Init /\ [][NextData]_vars

(* One request context and a monitor that reads the circuit through *)
(* getActiveClient and getCircuitState as time passes               *)
NextObs ==
    \/ get(1, "k1")
    \/ set(1, "k1", JNum(<<"1">>), NoOptions)
    \/ Settle({1})
    \/ getActiveClient
    \/ getCircuitState
    \/ Tick

SpecObs == Init /\ [][NextObs]_vars

(* One request context against a remote that rejects with the thrown *)
(* values of E only                                                  *)
NextThrown(E) ==
    \/ get(1, "k1")
    \/ set(1, "k1", JNum(<<"1">>), NoOptions)
    \/ RemoteResolves(1)
    \/ \E e \in E : RemoteRejects(1, e)
    \/ LocalResolves(1)
    \/ \E e \in LocalErrors : LocalRejects(1, e)
    \/ getActiveClient
    \/ Tick

(* One request context that sets two keys and deletes them, one or both *)
(* in one call                                                          *)
DelLists == {<<"k1">>, <<"k1", "k2">>, <<"k2", "k2">>}

NextDel ==
    \/ \E k \in Keys : set(1, k, JNum(<<"1">>), NoOptions)
    \/ \E ks \in DelLists : del(1, ks)
    \/ Settle({1})
    \/ Tick

SpecDel == Init /\ [][NextDel]_vars

(* One request context while the remote is down: the strings it sets are *)
(* stored as they are by the local backend, and it gets them back        *)
Alphabet == {"1", "a", "\""}
Texts == UNION {[1 .. n -> Alphabet] : n \in 0 .. MaxLen}

NextText ==
    \/ \E s \in Texts : set(1, "k1", JStr(s), Ex(TickMs \div 1000))
    \/ get(1, "k1")
    \/ RemoteRejects(1, ErrFetchFailed)
    \/ LocalResolves(1)
    \/ \E e \in LocalErrors : LocalRejects(1, e)
    \/ Tick

SpecText == Init /\ [][NextText]_vars

(* One request context whose backend calls can time out *)
NextTimeout ==
    \/ ping(1)
    \/ get(1, "k1")
    \/ RemoteResolves(1)
    \/ \E e \in RemoteTimeouts : RemoteRejects(1, e)
    \/ LocalResolves(1)
    \/ \E e \in LocalTimeouts : LocalRejects(1, e)
    \/ getActiveClient
    \/ Tick

SpecTimeout == Init /\ [][NextTimeout]_vars

(* One request context whose caller gives each operation a deadline *)
NextDeadline ==
    \/ \E ms \in Deadlines : getWithin(1, "k1", ms)
    \/ \E ms \in Deadlines : setWithin(1, "k1", JNum(<<"1">>), NoOptions, ms)
    \/ \E ms \in Deadlines : pingWithin(1, ms)
    \/ Settle({1})
    \/ getActiveClient
    \/ Tick

SpecDeadline == Init /\ [][NextDeadline]_vars

(* One request context and the smoke test of the deployment, which asks *)
(* GET /health/redis                                                    *)
NextHealth ==
    \/ get(1, "k1")
    \/ set(1, "k1", JNum(<<"1">>), NoOptions)
    \/ Settle({1})
    \/ getActiveClient
    \/ healthRedis
    \/ Tick

SpecHealth == Init /\ [][NextHealth]_vars

(* The module is loaded, then its importers call getInstance and use the *)
(* instance                                                              *)
NextInstance ==
    \/ getInstance
    \/ instance # 0 /\ get(1, "k1")
    \/ instance # 0 /\ set(1, "k1", JNum(<<"1">>), NoOptions)
    \/ instance # 0 /\ Settle({1})
    \/ instance # 0 /\ getActiveClient
    \/ instance # 0 /\ getCircuitState
    \/ Tick

SpecInstance == InitLoad /\ [][NextInstance]_vars

SpecFailover == Init /\ [][NextThrown(FailoverThrown)]_vars

SpecOther == Init /\ [][NextThrown(OtherThrown)]_vars

----------------------------------------------------------------------------
(* Notions the properties use *)

(* The circuit is open and its cooldown has not elapsed *)
Cooling == circuitOpen /\ now < cooldownUntil

(* The circuit is open and its cooldown has elapsed *)
Elapsed == circuitOpen /\ now >= cooldownUntil

(* Context c enters get, set, del or ping in this step *)
Started(c) == calls[c].pc = "idle" /\ calls'[c].pc # "idle"

(* Call c itself moves in this step (what it has seen of the other calls *)
(* left aside)                                                           *)
Advanced(c) == [calls'[c] EXCEPT !.sawTrip = 0] # [calls[c] EXCEPT !.sawTrip = 0]

(* The circuit state is left alone by this step *)
CircuitKept == circuitOpen' = circuitOpen /\ cooldownUntil' = cooldownUntil

----------------------------------------------------------------------------
(* C1: when the circuit is CLOSED and the remote call of an operation     *)
(* fails with a failover-classified error, the circuit becomes OPEN and   *)
(* cooldownUntil is the time of that failure plus 300000 ms.              *)
C1_TripStampsCooldown ==
    [][\A c \in Calls, e \in RemoteErrors :
          (RemoteRejects(c, e) /\ isFailoverError(e) /\ ~circuitOpen)
              => (circuitOpen' /\ cooldownUntil' = now + 300000)]_vars

C1_Witness ==
    \E c \in Calls :
        /\ calls[c].pc = "local" /\ calls[c].nRemote = 1 /\ ~calls[c].wasOpen
        /\ circuitOpen /\ cooldownUntil = now + 300000

(* C2: a failover-classified remote failure that finds the circuit already *)
(* OPEN leaves cooldownUntil as it is (and the circuit open).              *)
C2_TripIdempotent ==
    [][\A c \in Calls, e \in RemoteErrors :
          (circuitOpen /\ calls[c].pc = "remote" /\ isFailoverError(e)
             /\ RemoteRejects(c, e))
              => (circuitOpen' /\ cooldownUntil' = cooldownUntil)]_vars

(* a call that was in flight across another call's trip failed later,     *)
(* strictly inside the running cooldown                                   *)
C2_Witness ==
    \E c \in Calls :
        /\ calls[c].pc = "local" /\ calls[c].nRemote = 1 /\ calls[c].wasOpen
        /\ circuitOpen /\ now < cooldownUntil /\ cooldownUntil < now + 300000

(* C3 as stated: at the start of every get, set, del, ping and            *)
(* getActiveClient, an OPEN circuit with now >= cooldownUntil is CLOSED   *)
(* before routing, so the operation goes to the remote; if its remote     *)
(* call succeeds getActiveClient answers remote right afterwards; and the *)
(* circuit closes at no other step.                                       *)
C3_ClosesAtCallTime ==
    /\ \A c \in Calls :
          (Started(c) /\ Elapsed)
              => (~circuitOpen' /\ calls'[c].pc = "remote" /\ calls'[c].nRemote = 1
                  /\ calls'[c].nLocal = 0)
    /\ (getActiveClient /\ Elapsed) => (~circuitOpen' /\ obs'.activeClient = "upstash")
    /\ (circuitOpen /\ ~circuitOpen')
          => (now >= cooldownUntil /\ (getActiveClient \/ \E c \in Calls : Started(c)))

C3_Original ==
    [][/\ C3_ClosesAtCallTime
       /\ \A c \in Calls :
             (RemoteResolves(c) /\ calls[c].closedIt) => ~Cooling']_vars

(* C3 amended: ... if its remote call succeeds getActiveClient answers    *)
(* remote right afterwards unless another call's remote failure tripped   *)
(* the circuit while this one awaited the remote and that cooldown is     *)
(* still running.                                                         *)
C3_Amended ==
    [][/\ C3_ClosesAtCallTime
       /\ \A c \in Calls :
             (RemoteResolves(c) /\ calls[c].closedIt /\ ~Cooling) => ~Cooling'
       /\ (getActiveClient /\ ~Cooling) => obs'.activeClient = "upstash"]_vars

(* an operation that started exactly at cooldownUntil closed the circuit  *)
(* and is at the remote                                                   *)
C3_Witness ==
    \E c \in Calls :
        /\ calls[c].pc = "remote" /\ calls[c].closedIt
        /\ ~circuitOpen /\ now = cooldownUntil

(* C4: an operation that starts while the circuit is OPEN and             *)
(* now < cooldownUntil sends nothing to the remote backend, only its one  *)
(* command to the local backend.                                          *)
C4_NoRemoteWhileCooling ==
    /\ [][\A c \in Calls :
             (Started(c) /\ Cooling)
                 => (calls'[c].pc = "local" /\ calls'[c].nRemote = 0
                     /\ calls'[c].nLocal = 1 /\ calls'[c].wasCooling)]_vars
    /\ [](\A c \in Calls :
             calls[c].wasCooling
                 => (calls[c].pc = "local" /\ calls[c].nRemote = 0
                     /\ calls[c].sentRemote = NoRemoteCmd /\ calls[c].nLocal = 1))
    /\ [][\A c \in Calls :
             (calls[c].wasCooling /\ calls'[c] # calls[c])
                 => (calls'[c] = IdleCall /\ obs'.kind = "returned"
                     /\ obs'.call = calls[c] /\ remote' = remote)]_vars

(* an operation started strictly inside the cooldown, after time passed *)
C4_Witness ==
    \E c \in Calls :
        /\ calls[c].pc = "local" /\ calls[c].wasCooling
        /\ circuitOpen /\ now < cooldownUntil /\ cooldownUntil < now + 300000

(* The text a local command carries stands for the value v *)
Denotes(text, v) ==
    IF v.t = "string" THEN text = v.s
    ELSE JSONparse(text).ok /\ JSONparse(text).v = v

(* The local command is the remote command that failed: same operation, *)
(* keys, value and expiry                                                *)
SameCommand(rc, lc) ==
    /\ lc.op = rc.op
    /\ lc.keys = rc.keys
    /\ lc.ex = rc.ex
    /\ rc.op = "set" => Denotes(lc.text, rc.value)

(* The reply of the local backend to command lc, as the caller sees it *)
LocalAnswers(lc, res) ==
    /\ res.kind = "ok"
    /\ res.err = NoErr
    /\ lc.op = "get" =>
          IF Live(local[lc.keys[1]], now)
          THEN \/ res.val = JStr(local[lc.keys[1]].text)
               \/ (JSONparse(local[lc.keys[1]].text).ok
                     /\ res.val = JSONparse(local[lc.keys[1]].text).v)
          ELSE res.val = JNull
    /\ lc.op = "set" =>
          /\ local'[lc.keys[1]].has
          /\ local'[lc.keys[1]].text = lc.text
          /\ local'[lc.keys[1]].exp = (IF lc.ex = 0 THEN 0 ELSE now + lc.ex * 1000)
    /\ lc.op = "del" =>
          /\ res.n = Cardinality({k \in Range(lc.keys) : Live(local[k], now)})
          /\ \A k \in Range(lc.keys) : ~local'[k].has
    /\ lc.op = "ping" => res.val = Pong

(* C5: when the remote call fails with a failover-classified error, the   *)
(* same operation with the same arguments is executed exactly once on the *)
(* local backend within the same call, and the caller gets the local      *)
(* backend's result, not the remote error.                                *)
C5_FailoverRetriesLocally ==
    /\ [][\A c \in Calls, e \in RemoteErrors :
             (RemoteRejects(c, e) /\ isFailoverError(e))
                 => /\ calls'[c].pc = "local"
                    /\ calls[c].nLocal = 0 /\ calls'[c].nLocal = 1
                    /\ calls'[c].nRemote = 1
                    /\ obs'.kind # "returned"
                    /\ calls'[c].req = calls[c].req
                    /\ SameCommand(calls[c].sentRemote, calls'[c].sentLocal)
                    /\ remote' = remote]_vars
    /\ [][\A c \in Calls :
             (LocalResolves(c) /\ calls[c].nRemote = 1)
                 => /\ obs'.kind = "returned" /\ obs'.call = calls[c]
                    /\ LocalAnswers(calls[c].sentLocal, obs'.result)
                    /\ remote' = remote]_vars

(* a set of a number with a TTL failed over and returned from the local *)
(* backend                                                              *)
C5_Witness ==
    /\ obs.kind = "returned" /\ obs.result.kind = "ok"
    /\ obs.call.nRemote = 1 /\ obs.call.nLocal = 1
    /\ obs.call.req.op = "set" /\ exGiven(obs.call.req.options)
    /\ obs.call.req.value.t = "number"
    /\ local[obs.call.req.keys[1]].exp > now

(* C6: when the remote call fails with an error that is not               *)
(* failover-classified, that error is raised to the caller, the local     *)
(* backend is not called, and circuitOpen and cooldownUntil are unchanged, *)
(* so a getActiveClient that answered remote before still does.           *)
C6_OtherErrorsPropagate ==
    [][\A c \in Calls, e \in RemoteErrors :
          (RemoteRejects(c, e) /\ ~isFailoverError(e))
              => /\ obs'.kind = "returned" /\ obs'.call = calls[c]
                 /\ obs'.result = Raised(e)
                 /\ calls[c].nLocal = 0 /\ calls'[c] = IdleCall
                 /\ local' = local /\ remote' = remote
                 /\ CircuitKept
                 /\ ~Cooling => ~Cooling']_vars

C6_Witness ==
    /\ obs.kind = "returned" /\ obs.result = Raised(ErrWrongType)
    /\ obs.call.nRemote = 1 /\ obs.call.nLocal = 0
    /\ ~circuitOpen

(* C7: when the local call fails, after a failover or with the circuit    *)
(* already open, its error is raised unmodified, no further backend call  *)
(* is made and the circuit state is left as it was (OPEN stays OPEN with  *)
(* the same cooldownUntil).                                               *)
C7_LocalErrorsPropagate ==
    [][\A c \in Calls, e \in LocalErrors :
          LocalRejects(c, e)
              => /\ obs'.kind = "returned" /\ obs'.call = calls[c]
                 /\ obs'.result = Raised(e)
                 /\ calls'[c] = IdleCall
                 /\ remote' = remote /\ local' = local
                 /\ \A d \in Calls \ {c} : calls'[d] = calls[d]
                 /\ CircuitKept
                 /\ circuitOpen => circuitOpen']_vars

(* the local retry of a failed-over call failed too *)
C7_Witness ==
    /\ obs.kind = "returned" /\ obs.result = Raised(ErrLocalClosed)
    /\ obs.call.nRemote = 1 /\ obs.call.nLocal = 1
    /\ circuitOpen /\ now < cooldownUntil

(* C8: with a remote that fails with a failover-classified error, one     *)
(* failing operation makes getActiveClient answer "local", and it keeps   *)
(* answering "local", with cooldownUntil unchanged, until the cooldown    *)
(* stamped by that first failure elapses, whatever fails meanwhile.       *)
C8_LocalUntilCooldownElapses ==
    [][(* no step that leaves a closed circuit not cooling is a failover- *)
       (* classified remote failure                                       *)
       /\ (~circuitOpen /\ ~Cooling')
             => \A c \in Calls, e \in RemoteErrors :
                   ~(calls[c].pc = "remote" /\ isFailoverError(e)
                       /\ RemoteRejects(c, e))
       /\ (Cooling /\ now' < cooldownUntil)
             => (Cooling' /\ cooldownUntil' = cooldownUntil)
       /\ (Cooling /\ getActiveClient)
             => (obs'.activeClient = "local" /\ Cooling')]_vars

(* getActiveClient answered "local" later in a cooldown in which a second *)
(* remote failure was handled                                             *)
C8_Witness ==
    /\ obs.kind = "getActiveClient" /\ obs.activeClient = "local"
    /\ cooldownUntil < now + 300000
    /\ \E c \in Calls : calls[c].pc = "local" /\ calls[c].wasOpen

(* C9: every get, set, del or ping sends at most one command to the       *)
(* remote backend and at most one to the local backend, and settles in    *)
(* the step in which the last command it sent settles: no retry loop.     *)
C9_AtMostOneCallPerBackend ==
    /\ [](\A c \in Calls :
             /\ calls[c].nRemote <= 1 /\ calls[c].nLocal <= 1
             /\ calls[c].pc = "remote" => (calls[c].nRemote = 1 /\ calls[c].nLocal = 0)
             /\ calls[c].pc = "local" => calls[c].nLocal = 1)
    /\ [][\A c \in Calls :
             /\ (calls[c].pc = "remote" /\ Advanced(c))
                   => \/ (calls'[c] = IdleCall /\ obs'.kind = "returned"
                             /\ obs'.call = calls[c])
                      \/ (calls'[c].pc = "local" /\ calls'[c].nRemote = 1
                             /\ calls'[c].nLocal = 1)
             /\ (calls[c].pc = "local" /\ calls'[c] # calls[c])
                   => (calls'[c] = IdleCall /\ obs'.kind = "returned"
                         /\ obs'.call = calls[c])]_vars

(* a call that used both backends, one command each, has returned *)
C9_Witness ==
    /\ obs.kind = "returned" /\ obs.result.kind = "ok"
    /\ obs.call.nRemote = 1 /\ obs.call.nLocal = 1

(* C10: for every key k and JSON-representable value v, strings included, *)
(* a get(k) served by the backend that served the last set(k, v), with no *)
(* write, delete or expiry of k on it in between, returns v.              *)
C10_RoundTrip ==
    [][\A c \in Calls :
          /\ (/\ LocalResolves(c)
              /\ calls[c].sentLocal.op = "get"
              /\ Live(local[calls[c].sentLocal.keys[1]], now))
                => obs'.result = Value(local[calls[c].sentLocal.keys[1]].orig)
          /\ (/\ RemoteResolves(c)
              /\ calls[c].sentRemote.op = "get"
              /\ Live(remote[calls[c].sentRemote.keys[1]], now))
                => obs'.result = Value(remote[calls[c].sentRemote.keys[1]].val)]_vars

(* C11: getActiveClient answers "local" exactly when a get, set, del or   *)
(* ping started at the same instant goes straight to the local backend    *)
(* without a remote attempt, and "upstash" exactly when such an operation *)
(* attempts the remote first.                                             *)
C11_ActiveClientIsNextRoute ==
    [][/\ getActiveClient
             => /\ obs'.activeClient \in {"local", "upstash"}
                /\ obs'.activeClient = "local" <=> Cooling
       /\ \A c \in Calls :
             Started(c)
                 => /\ (calls'[c].pc = "local" /\ calls'[c].nRemote = 0) <=> Cooling
                    /\ (calls'[c].pc = "remote" /\ calls'[c].nRemote = 1
                           /\ calls'[c].nLocal = 0) <=> ~Cooling]_vars

(* getActiveClient answered "upstash" at the instant the cooldown elapsed, *)
(* while an operation started inside the cooldown is still at the local    *)
(* backend                                                                 *)
C11_Witness ==
    /\ obs.kind = "getActiveClient" /\ obs.activeClient = "upstash"
    /\ now = cooldownUntil
    /\ \E c \in Calls : calls[c].pc = "local" /\ calls[c].wasCooling

(* What a snapshot of the circuit taken now reports as remaining cooldown *)
RemainingNow == IF circuitOpen THEN Max(0, cooldownUntil - now) ELSE 0

(* C12: getCircuitState().remainingMs is 0 whenever the circuit is closed, *)
(* whatever cooldownUntil holds, and max(0, cooldownUntil - now) whenever  *)
(* it is open; so from one snapshot to a later one, while the circuit      *)
(* stays open and time advances, it never increases, and it is 0 from      *)
(* cooldownUntil on.                                                       *)
C12_RemainingMs ==
    /\ [][getCircuitState
             => /\ obs'.kind = "getCircuitState"
                /\ ~circuitOpen => obs'.remainingMs = 0
                /\ circuitOpen =>
                      obs'.remainingMs =
                          (IF cooldownUntil - now > 0 THEN cooldownUntil - now ELSE 0)
                /\ (circuitOpen /\ now >= cooldownUntil) => obs'.remainingMs = 0
                /\ obs'.remainingMs = RemainingNow
                /\ CircuitKept]_vars
    /\ [][(circuitOpen /\ circuitOpen')
             => (now' >= now /\ cooldownUntil' = cooldownUntil
                 /\ RemainingNow' <= RemainingNow)]_vars

(* a snapshot taken half way through the cooldown *)
C12_Witness ==
    /\ obs.kind = "getCircuitState" /\ obs.isOpen
    /\ obs.remainingMs > 0 /\ obs.remainingMs < 300000
    /\ obs.remainingMs = cooldownUntil - now

C14_OthersNeverTriggerFailover ==
    /\ [][\A e \in OtherThrown :
             RemoteRejects(1, e)
                 => /\ ~isFailoverError(e)
                    /\ CircuitKept
                    /\ obs'.kind = "returned" /\ obs'.result = Raised(e)]_vars
    /\ []~circuitOpen

C16_Singleton ==
    /\ [](instance \in {0, 1})
    /\ [][getInstance
             => /\ instance' = 1
                /\ obs'.kind = "getInstance" /\ obs'.instance = 1
                /\ instance # 0 => (instance' = instance /\ CircuitKept)]_vars
    /\ [][instance' # instance => (instance = 0 /\ getInstance)]_vars

(* getInstance was called again while the circuit was open: the same *)
(* instance, its circuit still open                                  *)
C16_Witness ==
    /\ obs.kind = "getInstance" /\ obs.instance = 1
    /\ circuitOpen /\ cooldownUntil > now

(* The entry is gone for every get at time t or later *)
GoneFrom(entry, t) == ~entry.has \/ (entry.exp # 0 /\ entry.exp <= t)

(* C17: whenever set is called with a TTL of t seconds, whatever t is, the *)
(* backend that serves the write (the remote, or the local one on the      *)
(* failover retry or while the circuit is open) gets it with expiry t, so  *)
(* that the entry is gone from write time + t on: a get of the key served  *)
(* by that backend then, with no set in between, returns null.             *)
C17_TtlHonoured ==
    [][\A c \in Calls :
          /\ (RemoteResolves(c) /\ calls[c].req.op = "set" /\ calls[c].req.options.has)
                => /\ calls[c].sentRemote.ex = calls[c].req.options.ex
                   /\ GoneFrom(remote'[calls[c].req.keys[1]],
                               now + calls[c].req.options.ex * 1000)
          /\ (LocalResolves(c) /\ calls[c].req.op = "set" /\ calls[c].req.options.has)
                => /\ calls[c].sentLocal.ex = calls[c].req.options.ex
                   /\ GoneFrom(local'[calls[c].req.keys[1]],
                               now + calls[c].req.options.ex * 1000)
          /\ (RemoteResolves(c) /\ calls[c].req.op = "get"
                 /\ GoneFrom(remote[calls[c].req.keys[1]], now))
                => obs'.result = Value(JNull)
          /\ (LocalResolves(c) /\ calls[c].req.op = "get"
                 /\ GoneFrom(local[calls[c].req.keys[1]], now))
                => obs'.result = Value(JNull)]_vars

(* The del command with the keys of `keys` ran on the backend whose *)
(* contents went from store to store2, and answered res             *)
Deleted(keys, store, store2, res) ==
    /\ \A k \in Range(keys) : ~store2[k].has
    /\ \A k \in Keys \ Range(keys) : store2[k] = store[k]
    /\ res.kind = "ok"
    /\ res.n = Cardinality({k \in Range(keys) : Live(store[k], now)})
    /\ res.n \in 0 .. Len(keys)

(* C18: del(k1, ..., kn) removes every listed key from the backend that   *)
(* serves the call and returns how many of them existed there just before *)
(* (0 to n); after a failover-classified remote failure the deletion is   *)
(* applied to, and the count taken from, the local backend, the remote    *)
(* one being left as it was.                                              *)
C18_DelRemovesAndCounts ==
    [][\A c \in Calls :
          calls[c].req.op = "del"
              => /\ RemoteResolves(c)
                      => /\ calls[c].sentRemote.keys = calls[c].req.keys
                         /\ Deleted(calls[c].req.keys, remote, remote', obs'.result)
                         /\ local' = local
                 /\ LocalResolves(c)
                      => /\ calls[c].sentLocal.keys = calls[c].req.keys
                         /\ Deleted(calls[c].req.keys, local, local', obs'.result)
                         /\ remote' = remote
                 /\ \A e \in RemoteErrors :
                       (isFailoverError(e) /\ RemoteRejects(c, e))
                           => /\ calls'[c].pc = "local"
                              /\ calls'[c].sentLocal.op = "del"
                              /\ calls'[c].sentLocal.keys = calls[c].req.keys
                              /\ remote' = remote /\ local' = local]_vars

(* a del of two keys failed over and removed both from the local backend, *)
(* while the remote one still holds a key                                 *)
C18_Witness ==
    /\ obs.kind = "returned" /\ obs.call.req.op = "del"
    /\ obs.call.nRemote = 1 /\ obs.call.nLocal = 1
    /\ obs.result = Number(2)
    /\ \A k \in Keys : ~local[k].has
    /\ \E k \in Keys : remote[k].has

(* C19: every error raised to a caller of get, set, del or ping is the     *)
(* error with which a backend call of that same invocation failed: a       *)
(* remote error that is not failover-classified, or a local error.  The    *)
(* component raises no error of its own, and an operation that finds the   *)
(* circuit open does not fail for that: it fails only if its local call    *)
(* fails.                                                                  *)
C19_OnlyBackendErrors ==
    [][/\ (obs'.kind = "returned" /\ obs'.result.kind = "err")
             => \E c \in Calls :
                   /\ obs'.call = calls[c]
                   /\ calls'[c] = IdleCall
                   /\ \/ /\ calls[c].pc = "remote" /\ calls[c].nRemote = 1
                         /\ \E e \in RemoteErrors :
                               /\ RemoteRejects(c, e) /\ ~isFailoverError(e)
                               /\ obs'.result = Raised(e)
                      \/ /\ calls[c].pc = "local" /\ calls[c].nLocal = 1
                         /\ \E e \in LocalErrors :
                               LocalRejects(c, e) /\ obs'.result = Raised(e)
       /\ \A c \in Calls :
             Started(c) => (obs'.kind # "returned" /\ calls'[c].pc \in {"remote", "local"})
       /\ \A c \in Calls :
             (calls[c].wasCooling /\ LocalResolves(c)) => obs'.result.kind = "ok"]_vars

(* an operation that started with the circuit open failed, with the *)
(* error of its local call                                          *)
C19_Witness ==
    /\ obs.kind = "returned" /\ obs.result.kind = "err"
    /\ obs.call.wasCooling /\ obs.call.nRemote = 0 /\ obs.call.nLocal = 1
    /\ obs.result.err \in LocalErrors
    /\ circuitOpen

(* C20: a get served by the local backend never raises because of the    *)
(* text stored: it returns null where the key is absent, the raw text    *)
(* unmodified where the text does not decode as JSON (and the decoded    *)
(* value where it does); it raises only the error of the local call.     *)
C20_LocalGetNeverRaisesOnText ==
    [][\A c \in Calls :
          calls[c].sentLocal.op = "get"
              => /\ LocalResolves(c)
                      => LET entry == local[calls[c].sentLocal.keys[1]]
                         IN  /\ obs'.kind = "returned" /\ obs'.call = calls[c]
                             /\ obs'.result.kind = "ok"
                             /\ ~Live(entry, now) => obs'.result = Value(JNull)
                             /\ (Live(entry, now) /\ ~JSONparse(entry.text).ok)
                                   => obs'.result = Value(JStr(entry.text))
                             /\ (Live(entry, now) /\ JSONparse(entry.text).ok)
                                   => obs'.result = Value(JSONparse(entry.text).v)
                 /\ (calls'[c] = IdleCall /\ obs'.result.kind = "err")
                      => \E e \in LocalErrors :
                            LocalRejects(c, e) /\ obs'.result = Raised(e)]_vars

(* a get returned, as it is, a stored text that opens a string and does *)
(* not close it                                                         *)
C20_Witness ==
    /\ obs.kind = "returned" /\ obs.call.req.op = "get" /\ obs.call.nLocal = 1
    /\ Live(local["k1"], now) /\ local["k1"].text = <<"\"", "a">>
    /\ obs.result = Value(JStr(<<"\"", "a">>))

(* C21: a timeout raised by the remote call is a failover trigger: the    *)
(* circuit is open afterwards (tripped if it was closed) and the          *)
(* operation goes on to the local backend; a timeout raised by the local  *)
(* call is not: it is raised to the caller and the circuit state is left  *)
(* as it was.                                                             *)
C21_TimeoutByBackend ==
    [][/\ \A e \in RemoteTimeouts :
             (calls[1].pc = "remote" /\ RemoteRejects(1, e))
                 => /\ circuitOpen'
                    /\ ~circuitOpen => cooldownUntil' = now + COOLDOWN_MS
                    /\ calls'[1].pc = "local" /\ calls'[1].nLocal = 1
                    /\ calls'[1].sentLocal = localCmd(calls[1].req)
                    /\ obs'.kind # "returned"
       /\ \A e \in LocalTimeouts :
             (calls[1].pc = "local" /\ LocalRejects(1, e))
                 => /\ obs'.kind = "returned" /\ obs'.result = Raised(e)
                    /\ calls'[1] = IdleCall
                    /\ CircuitKept]_vars

(* the remote call timed out, the operation went on to the local backend, *)
(* and there it timed out again and was raised; the circuit had been      *)
(* closed meanwhile and stays closed                                      *)
C21_Witness ==
    /\ obs.kind = "returned" /\ obs.result.kind = "err"
    /\ obs.result.err \in LocalTimeouts
    /\ obs.call.nRemote = 1 /\ obs.call.nLocal = 1
    /\ ~circuitOpen /\ cooldownUntil = now

(* The caller of context c starts an operation to be done within ms *)
StartedWithin(c, ms) ==
    \/ getWithin(c, "k1", ms)
    \/ setWithin(c, "k1", JNum(<<"1">>), NoOptions, ms)
    \/ pingWithin(c, ms)

(* C22: get, set, del and ping honour a timeout/deadline the caller gives: *)
(* the backend call that serves the operation, remote or local, runs under *)
(* that time limit.                                                        *)
C22_DeadlinePassedDown ==
    [][\A ms \in Deadlines :
          StartedWithin(1, ms)
              => /\ calls'[1].pc = "remote"
                      => remoteTimeoutMs(calls'[1].sentRemote) = ms
                 /\ calls'[1].pc = "local"
                      => localTimeoutMs(calls'[1].sentLocal) = ms]_vars

(* C23: every circuit transition (CLOSED to OPEN, OPEN to CLOSED) and every *)
(* failed backend call (remote or local, failover-classified or not) writes *)
(* an entry with a reason to the log.  (The circuit opens in the catch     *)
(* block of a failed remote call only, so the second conjunct covers that  *)
(* transition.)                                                            *)
C23_EveryFailureLogged ==
    [][/\ (circuitOpen /\ ~circuitOpen')
            => shouldUseLocal_log(circuitOpen, cooldownUntil, now) # <<>>
       /\ \A e \in RemoteErrors :
              (calls[1].pc = "remote" /\ RemoteRejects(1, e))
                  => catch_log(circuitOpen, e) # <<>>
       /\ \A e \in LocalErrors :
              (calls[1].pc = "local" /\ LocalRejects(1, e))
                  => localAwait_log(e) # <<>>]_vars

(* The answer to GET /health/redis is the snapshot of the circuit at the *)
(* time of the request, with status 200                                  *)
HealthAnswer ==
    /\ obs.status = 200
    /\ obs.isOpen = circuitOpen
    /\ obs.cooldownUntil = cooldownUntil
    /\ obs.remainingMs = RemainingNow

(* C24 as stated: GET /health/redis always answers 200 with exactly the   *)
(* snapshot getCircuitState returns at request time (isOpen,              *)
(* cooldownUntil, remainingMs, activeClient), where activeClient is one   *)
(* of "remote" or "local".                                                *)
C24_Original ==
    obs.kind = "GET /health/redis"
        => /\ HealthAnswer
           /\ obs.activeClient \in {"remote", "local"}
           /\ obs.activeClient = IF circuitOpen THEN "local" ELSE "remote"

(* C24 amended: GET /health/redis always answers 200 with exactly the     *)
(* snapshot getCircuitState returns at request time, where activeClient   *)
(* is "local" when isOpen is true and "upstash" when it is false.         *)
C24_Amended ==
    obs.kind = "GET /health/redis"
        => /\ HealthAnswer
           /\ obs.activeClient \in {"upstash", "local"}
           /\ obs.activeClient = IF circuitOpen THEN "local" ELSE "upstash"

(* The route is asked while the circuit is open, and once the cooldown has *)
(* elapsed: the snapshot still says open and local, with nothing remaining *)
C24_Witness ==
    /\ obs.kind = "GET /health/redis" /\ obs.status = 200
    /\ obs.isOpen /\ obs.activeClient = "local" /\ obs.remainingMs = 0
    /\ obs.cooldownUntil > 0 /\ now >= cooldownUntil

(* C25: no caller observes a half-written trip: whenever the circuit is   *)
(* open, cooldownUntil is the time of the trip that opened it plus        *)
(* 300000 ms (it is stamped in the step that opens the circuit and kept   *)
(* while the circuit stays open); cooldownUntil is 0 before the first     *)
(* trip and never decreases.                                              *)
C25_TripWrittenWhole ==
    /\ cooldownUntil = 0 /\ ~circuitOpen
    /\ [][/\ (~circuitOpen /\ circuitOpen') => cooldownUntil' = now + COOLDOWN_MS
          /\ (circuitOpen /\ circuitOpen') => cooldownUntil' = cooldownUntil
          /\ cooldownUntil' # cooldownUntil => (~circuitOpen /\ circuitOpen')
          /\ cooldownUntil' >= cooldownUntil
          /\ circuitOpen' => (cooldownUntil' > 0 /\ cooldownUntil' <= now' + COOLDOWN_MS)]_vars

(* The circuit is open for the second time, stamped by the later trip,    *)
(* while another call that saw the trip is still waiting for the remote   *)
C25_Witness ==
    /\ circuitOpen /\ cooldownUntil = now + COOLDOWN_MS
    /\ cooldownUntil >= 2 * COOLDOWN_MS + TickMs
    /\ \E c \in Calls : calls[c].pc = "remote" /\ calls[c].sawTrip = cooldownUntil

(* C26: isOpen and cooldownUntil change in two ways only: a failover-      *)
(* classified remote failure opens the circuit, and the call-time check of *)
(* get/set/del/ping/getActiveClient closes an expired one.  A successful   *)
(* remote call, a non-failover remote error, any local success or failure, *)
(* and getCircuitState (even after the cooldown has elapsed) leave both    *)
(* fields unchanged.                                                       *)
C26_CircuitFrame ==
    [][/\ ~CircuitKept
            => \/ /\ ~circuitOpen /\ circuitOpen'
                  /\ calls[1].pc = "remote"
                  /\ \E e \in RemoteErrors : isFailoverError(e) /\ RemoteRejects(1, e)
               \/ /\ Elapsed /\ ~circuitOpen' /\ cooldownUntil' = cooldownUntil
                  /\ Started(1) \/ obs'.kind = "getActiveClient"
       /\ (calls[1].pc = "remote" /\ RemoteResolves(1)) => CircuitKept
       /\ \A e \in RemoteErrors :
              (calls[1].pc = "remote" /\ ~isFailoverError(e) /\ RemoteRejects(1, e))
                  => CircuitKept
       /\ (calls[1].pc = "local" /\ LocalResolves(1)) => CircuitKept
       /\ \A e \in LocalErrors :
              (calls[1].pc = "local" /\ LocalRejects(1, e)) => CircuitKept
       /\ obs'.kind = "getCircuitState" => CircuitKept]_vars

(* getCircuitState has answered after the cooldown elapsed, and the circuit *)
(* is still open                                                            *)
C26_Witness ==
    /\ obs.kind = "getCircuitState" /\ obs.isOpen /\ obs.remainingMs = 0
    /\ circuitOpen /\ now >= cooldownUntil

(* getCircuitState and getActiveClient are called one after the other, at *)
(* the same instant                                                       *)
SnapshotThenActive == obs.kind = "getCircuitState" /\ obs'.kind = "getActiveClient"
ActiveThenSnapshot == obs.kind = "getActiveClient" /\ obs'.kind = "getCircuitState"

(* C27 as stated: the snapshot of getCircuitState agrees with              *)
(* getActiveClient taken at the same instant: activeClient is "local" (and *)
(* isOpen is true) exactly when getActiveClient returns the local client,  *)
(* including when the cooldown has elapsed and no operation has run since. *)
C27_Original ==
    [][/\ SnapshotThenActive
            => /\ obs.isOpen = (obs.activeClient = "local")
               /\ (obs.activeClient = "local") = (obs'.activeClient = "local")
       /\ ActiveThenSnapshot
            => /\ obs'.isOpen = (obs'.activeClient = "local")
               /\ (obs'.activeClient = "local") = (obs.activeClient = "local")]_vars

(* C27 amended: the snapshot of getCircuitState agrees with getActiveClient *)
(* taken at the same instant, except when the circuit is open and the       *)
(* cooldown has elapsed with no operation since: then the snapshot has      *)
(* isOpen true, activeClient "local" and remainingMs 0, while               *)
(* getActiveClient closes the circuit and returns the remote client; a      *)
(* snapshot taken after getActiveClient always agrees with it.              *)
C27_Amended ==
    [][/\ SnapshotThenActive
            => /\ obs.isOpen = (obs.activeClient = "local")
               /\ IF obs.isOpen /\ obs.remainingMs = 0
                  THEN obs'.activeClient = "upstash" /\ ~circuitOpen'
                  ELSE obs'.activeClient = obs.activeClient
       /\ ActiveThenSnapshot
            => /\ obs'.isOpen = (obs'.activeClient = "local")
               /\ obs'.activeClient = obs.activeClient]_vars

(* A snapshot taken some time after the cooldown elapsed, with no call in *)
(* flight: it says open and local                                         *)
C27_Witness ==
    /\ obs.kind = "getCircuitState" /\ obs.isOpen /\ obs.activeClient = "local"
    /\ obs.remainingMs = 0 /\ now > cooldownUntil
    /\ calls[1].pc = "idle"

(* An operation started in the state this step leaves would go to local *)
NextGoesLocal == shouldUseLocal(circuitOpen', cooldownUntil', now').ret

(* C28 as stated: under every interleaving, when a remote call fails with  *)
(* a failover-classified error at time t, the circuit is OPEN with         *)
(* cooldownUntil > t when the call's error handling completes, so an       *)
(* operation started immediately afterwards goes to local; also for a call *)
(* that was in flight across another call's trip and whose failure arrives *)
(* after that trip's cooldown has elapsed.                                 *)
C28_Original ==
    [][\A c \in Calls :
          (calls[c].pc = "remote" /\ calls'[c].pc = "local")
              => \A e \in RemoteErrors :
                    (RemoteRejects(c, e) /\ isFailoverError(e))
                        => /\ circuitOpen'
                           /\ cooldownUntil' > now
                           /\ NextGoesLocal]_vars

(* C28 amended: ... the circuit is OPEN when the call's error handling     *)
(* completes and the call itself is retried on local; cooldownUntil > t,   *)
(* and an operation started immediately afterwards goes to local, unless   *)
(* the circuit was still open from another call's trip whose cooldown had  *)
(* already elapsed: then the trip changes nothing, cooldownUntil <= t is   *)
(* kept, and an operation started immediately afterwards closes the        *)
(* circuit and goes to remote.                                             *)
C28_Amended ==
    [][\A c \in Calls :
          (calls[c].pc = "remote" /\ calls'[c].pc = "local")
              => \A e \in RemoteErrors :
                    (RemoteRejects(c, e) /\ isFailoverError(e))
                        => /\ circuitOpen'
                           /\ calls'[c].pc = "local" /\ calls'[c].nLocal = 1
                           /\ IF Elapsed
                              THEN /\ calls[c].sawTrip = cooldownUntil
                                   /\ cooldownUntil' = cooldownUntil
                                   /\ cooldownUntil' <= now
                                   /\ ~NextGoesLocal
                              ELSE /\ cooldownUntil' > now
                                   /\ NextGoesLocal]_vars

(* A call is retried on local after a failure that found the circuit open, *)
(* and the cooldown it found is over                                       *)
C28_Witness ==
    \E c \in Calls :
        /\ calls[c].pc = "local" /\ calls[c].nRemote = 1 /\ calls[c].wasOpen
        /\ circuitOpen /\ now >= cooldownUntil
        /\ \A d \in Calls \ {c} : calls[d].pc = "idle"

====
